---------------------------- MODULE Spec2Model ----------------------------
(***************************************************************************)
(* Model of src/app.py: the fuzzy name search over a tabular dataset.      *)
(*                                                                         *)
(* Text is a sequence of one-character tokens.  Non-ASCII characters are   *)
(* written by code point: "U+0160" is S-caron, "U+0161" is s-caron,        *)
(* "U+5317" is the CJK character that unidecode renders as "Bei ".         *)
(* A cell of the dataset is Str(text) or NaN (a missing value); a computed *)
(* score is Num(n).  Scorer values are floats in [0,100]; the model keeps  *)
(* them in tenths (705 is 70.5).                                           *)
(***************************************************************************)
EXTENDS Integers, Sequences, FiniteSets, TLC

VARIABLES
    pc,          \* position of the script run
    df,          \* the loaded dataset: a sequence of records (column -> cell)
    cols,        \* list(df.columns)
    search_cols, \* the multiselect's value
    build_status,\* "none" | "ok" | "stopped" | "KeyError"
    choices,     \* build_choices: the normalized search keys
    meta,        \* build_choices: the records with _display, without _norm
    meta_cols,   \* meta.columns
    q,           \* the raw query
    scorer,      \* the scorer's value (tenths) on (qn, choice), per choice
    limit,       \* "Max results"
    min_score,   \* "Minimum score"
    search_status,\* "none" | "returned" | "InvalidParameter"
    scored,      \* the record indices process.extract has scored
    results_df,  \* do_search's return value: the rows
    results_cols,\* do_search's return value: the columns
    shown_df,    \* the rows displayed and exported
    shown_cols,  \* their columns
    text,        \* an input of normalize_text
    normed       \* normalize_text(text)

vars == <<pc, df, cols, search_cols, build_status, choices, meta, meta_cols,
          q, scorer, limit, min_score, search_status, scored, results_df,
          results_cols, shown_df, shown_cols, text, normed>>

(***************************************************************************)
(* Bounds of the model.                                                    *)
(***************************************************************************)
MaxRecords == 2
MaxLimit == 2
MaxTextLen == 3
MaxSelect == 2

(***************************************************************************)
(* Values.                                                                 *)
(***************************************************************************)
Str(s) == [str |-> s]
Num(n) == [num |-> n]
NaN == [nan |-> TRUE]
None == [none |-> TRUE]

Strings(A, n) == UNION {[1..k -> A] : k \in 0..n}

Reverse(s) == [i \in 1..Len(s) |-> s[Len(s) + 1 - i]]

RECURSIVE Concat(_)
Concat(ss) == IF ss = <<>> THEN <<>> ELSE Head(ss) \o Concat(Tail(ss))

(***************************************************************************)
(* normalize_text                                                          *)
(***************************************************************************)
Whitespace == {" "}

RECURSIVE LStrip(_)
LStrip(s) ==
    IF s # <<>> /\ Head(s) \in Whitespace THEN LStrip(Tail(s)) ELSE s

\* str.strip()
Strip(s) == Reverse(LStrip(Reverse(LStrip(s))))

LowerChar(c) ==
    CASE c = "B" -> "b"
      [] c = "S" -> "s"
      [] c = "U+0160" -> "U+0161"
      [] OTHER -> c

\* str.lower()
Lower(s) == [i \in 1..Len(s) |-> LowerChar(s[i])]

UnidecodeChar(c) ==
    CASE c = "U+0160" -> <<"S">>
      [] c = "U+0161" -> <<"s">>
      [] c = "U+5317" -> <<"B", "e", "i", " ">>
      [] OTHER -> <<c>>

\* unidecode(s): every character is replaced by its ASCII transliteration
Unidecode(s) == Concat([i \in 1..Len(s) |-> UnidecodeChar(s[i])])

Punctuation ==
    {",", ".", ";", ":", "_", "/", "\\", "(", ")", "[", "]", "{", "}", "'", "\""}

\* for ch in [...]: s = s.replace(ch, " ")
ReplacePunctuation(s) ==
    [i \in 1..Len(s) |-> IF s[i] \in Punctuation THEN " " ELSE s[i]]

\* s.split(): the maximal runs of non-whitespace characters
RECURSIVE SplitFrom(_, _)
SplitFrom(s, cur) ==
    IF s = <<>> THEN (IF cur = <<>> THEN <<>> ELSE <<cur>>)
    ELSE IF Head(s) \in Whitespace
         THEN (IF cur = <<>> THEN <<>> ELSE <<cur>>) \o SplitFrom(Tail(s), <<>>)
         ELSE SplitFrom(Tail(s), Append(cur, Head(s)))

Split(s) == SplitFrom(s, <<>>)

\* sep.join(parts)
RECURSIVE Join(_, _)
Join(sep, parts) ==
    IF parts = <<>> THEN <<>>
    ELSE IF Len(parts) = 1 THEN Head(parts)
    ELSE Head(parts) \o sep \o Join(sep, Tail(parts))

\* pd.isna(s)
IsNa(s) == s = NaN \/ s = None

normalize_text(s) ==
    IF IsNa(s) THEN <<>>
    ELSE Join(<<" ">>,
              Split(ReplacePunctuation(Unidecode(Lower(Strip(s.str))))))

(***************************************************************************)
(* The dataset                                                             *)
(***************************************************************************)
Range(s) == {s[i] : i \in 1..Len(s)}

\* The column headers a sheet may have: one or two columns, the second one
\* possibly named like a column the program adds.
Schemas ==
    {<<"Name">>, <<"Name", "City">>, <<"Name", "score">>, <<"Name", "match">>,
     <<"Name", "_display">>, <<"Name", "_norm">>}

\* The cells a sheet may hold: a missing value, and text that normalization
\* changes
CellValues == {NaN, Str(<<"U+0160", ",">>)}

Datasets(schema) ==
    UNION {[1..n -> [Range(schema) -> CellValues]] : n \in 0..MaxRecords}

\* A field selection: distinct names, in the order chosen; "Absent" is a
\* name that is no column of the dataset
Selections(columns) ==
    {s \in Strings(Range(columns) \cup {"Absent"}, MaxSelect) :
        \A i, j \in 1..Len(s) : i # j => s[i] # s[j]}

(***************************************************************************)
(* build_choices                                                           *)
(***************************************************************************)
\* Series.astype(str) on one cell: a missing value becomes the text "nan"
AsTypeStr(cell) == IF cell = NaN THEN <<"n", "a", "n">> ELSE cell.str

\* records[name] = ...: a new column goes last, an existing one keeps its place
WithColumn(columns, name) ==
    IF name \in Range(columns) THEN columns ELSE Append(columns, name)

\* drop(columns=[name])
DropColumn(columns, name) == SelectSeq(columns, LAMBDA c : c # name)

\* records["_display"] of one record
DisplayOf(record, selection) ==
    IF Len(selection) = 1
    THEN AsTypeStr(record[selection[1]])
    ELSE Join(<<" ", "|", " ">>,
              [k \in 1..Len(selection) |-> AsTypeStr(record[selection[k]])])

\* records[search_cols] raises KeyError for a name that is no column
KeyErrorIn(columns, selection) ==
    \E k \in 1..Len(selection) : selection[k] \notin Range(columns)

MetaColumns(columns) ==
    DropColumn(WithColumn(WithColumn(columns, "_display"), "_norm"), "_norm")

\* one row of meta: the record with _display set, and _norm set and dropped
MetaRow(record, columns, selection) ==
    [c \in Range(MetaColumns(columns)) |->
        IF c = "_display" THEN Str(DisplayOf(record, selection)) ELSE record[c]]

build_choices(frame, columns, selection) ==
    [choices |-> [i \in 1..Len(frame) |->
                    normalize_text(Str(DisplayOf(frame[i], selection)))],
     meta |-> [i \in 1..Len(frame) |-> MetaRow(frame[i], columns, selection)],
     meta_cols |-> MetaColumns(columns)]

(***************************************************************************)
(* do_search                                                               *)
(***************************************************************************)
\* The values a scorer returns, in tenths: 0, 70.0 and 70.5
ScoreValues == {0, 700, 705}

\* "Minimum score" as an argument of do_search: the slider's range 0..100
\* and the values next to it
MinScores == {-1, 0, 70, 101}

\* "Max results" as an argument of do_search: the slider starts at 1
Limits == 0..MaxLimit

\* The raw queries: none, empty, whitespace and punctuation only, and two
\* that normalize to "a"
Queries ==
    {None, Str(<<>>), Str(<<" ">>), Str(<<",">>), Str(<<" ", ",">>),
     Str(<<"a">>), Str(<<"a", ",">>)}

\* the code point of a character that occurs in a cell
CodePoint(c) ==
    CASE c = "," -> 44
      [] c = "a" -> 97
      [] c = "n" -> 110
      [] c = "U+0160" -> 352
      [] OTHER -> 0

RECURSIVE TextLess(_, _)
TextLess(a, b) ==
    IF b = <<>> THEN FALSE
    ELSE IF a = <<>> THEN TRUE
    ELSE IF CodePoint(Head(a)) # CodePoint(Head(b))
         THEN CodePoint(Head(a)) < CodePoint(Head(b))
         ELSE TextLess(Tail(a), Tail(b))

\* a sorts before b in ascending order; missing values sort last either way
ValueLess(a, b) ==
    IF a = NaN \/ b = NaN THEN a = NaN /\ b # NaN
    ELSE IF "num" \in DOMAIN a THEN a.num < b.num
    ELSE TextLess(a.str, b.str)

\* a stable sort, descending by the field key
RECURSIVE InsertDesc(_, _)
InsertDesc(sorted, x) ==
    IF sorted = <<>> THEN <<x>>
    ELSE IF ValueLess(Head(sorted).key, x.key) THEN <<x>> \o sorted
    ELSE <<Head(sorted)>> \o InsertDesc(Tail(sorted), x)

RECURSIVE SortDesc(_)
SortDesc(s) ==
    IF s = <<>> THEN <<>>
    ELSE InsertDesc(SortDesc(SubSeq(s, 1, Len(s) - 1)), s[Len(s)])

Min(a, b) == IF a < b THEN a ELSE b

\* process.extract(qn, choices, scorer=scorer, limit=limit): every choice is
\* scored; the limit best, by score descending, equal scores by index
extract(keys, table, lim) ==
    LET all == SortDesc([i \in 1..Len(keys) |->
                            [key |-> Num(table[keys[i]]), idx |-> i]])
    IN  SubSeq(all, 1, Min(lim, Len(all)))

\* score >= min_score
Keep(score, threshold) == score >= threshold * 10

\* int(score)
IntScore(score) == score \div 10

\* {"score": ..., "match": ..., **row.to_dict()}: a later key replaces an
\* earlier one
RowDict(row, score) ==
    [c \in {"score", "match"} \cup DOMAIN row |->
        IF c \in DOMAIN row THEN row[c]
        ELSE IF c = "score" THEN Num(IntScore(score))
        ELSE row["_display"]]

\* the rows do_search appends, in the order of results; idx and score are
\* kept beside the row's fields to state the claims
RECURSIVE Rows(_, _, _)
Rows(results, frame, threshold) ==
    IF results = <<>> THEN <<>>
    ELSE LET r == Head(results)
             rest == Rows(Tail(results), frame, threshold)
         IN  IF Keep(r.key.num, threshold)
             THEN <<[idx |-> r.idx, score |-> r.key.num,
                     vals |-> RowDict(frame[r.idx], r.key.num)]>> \o rest
             ELSE rest

\* sort_values("score", ascending=False, kind="mergesort")
SortValues(rows) ==
    LET keyed == [i \in 1..Len(rows) |->
                    [key |-> rows[i].vals["score"], row |-> rows[i]]]
        sorted == SortDesc(keyed)
    IN  [i \in 1..Len(rows) |-> sorted[i].row]

\* the early-exit variant: the first lim kept entries in corpus order
search_rows_early_exit(keys, frame, table, lim, threshold) ==
    LET kept == SelectSeq([i \in 1..Len(keys) |->
                              [key |-> Num(table[keys[i]]), idx |-> i]],
                          LAMBDA r : Keep(r.key.num, threshold))
    IN  Rows(SubSeq(kept, 1, Min(lim, Len(kept))), frame, threshold)

\* results = process.extract(...); the loop over results
search_rows(keys, frame, table, lim, threshold) ==
    Rows(extract(keys, table, lim), frame, threshold)

\* a query that is never taken to be empty
EmptyQueryIgnored(qn) == FALSE

\* if not qn:
EmptyQuery(qn) == qn = <<>>

EmptyFrame(columns) ==
    [rows |-> <<>>, cols |-> <<"score", "match">> \o columns, scored |-> {}]

do_search(query, keys, frame, columns, table, lim, threshold) ==
    LET qn == normalize_text(query)
    IN  IF EmptyQuery(qn) THEN EmptyFrame(columns)
        ELSE LET rows == search_rows(keys, frame, table, lim, threshold)
             IN  IF rows # <<>>
                 THEN [rows |-> SortValues(rows),
                       cols |-> <<"score", "match">> \o
                                SelectSeq(columns,
                                          LAMBDA c : c \notin {"score", "match"}),
                       scored |-> 1..Len(keys)]
                 ELSE [EmptyFrame(columns) EXCEPT !.scored = 1..Len(keys)]

\* the rows with the columns kept
Project(rows, kept) ==
    [rows |-> [i \in 1..Len(rows) |->
                 [idx |-> rows[i].idx,
                  vals |-> [c \in Range(kept) |-> rows[i].vals[c]]]],
     cols |-> kept]

\* a clean-up that drops "match" alone
ShownWithDisplay(rows, columns) ==
    Project(rows, SelectSeq(columns, LAMBDA c : c # "match"))

\* for col in ["match", "_display"]: results_df.drop(columns=[col])
Shown(rows, columns) ==
    Project(rows, SelectSeq(columns, LAMBDA c : c \notin {"match", "_display"}))

\* a guard that lets an empty selection through
EmptySelectionIgnored(selection) == FALSE

\* if not search_cols:
EmptySelection(selection) == selection = <<>>

\* if q:
Truthy(query) == query # None /\ query # Str(<<>>)

(***************************************************************************)
(* The script run                                                          *)
(***************************************************************************)
Blank ==
    /\ df = <<>> /\ cols = <<>> /\ search_cols = <<>> /\ build_status = "none"
    /\ choices = <<>> /\ meta = <<>> /\ meta_cols = <<>>
    /\ q = None /\ scorer = <<>> /\ limit = 0 /\ min_score = 0
    /\ search_status = "none" /\ scored = {}
    /\ results_df = <<>> /\ results_cols = <<>>
    /\ shown_df = <<>> /\ shown_cols = <<>>

Init == pc = "start" /\ Blank /\ text = None /\ normed = <<>>

\* df = load_google_sheet(URL); cols = list(df.columns)
LoadSheet ==
    /\ pc = "start"
    /\ \E schema \in Schemas : \E d \in Datasets(schema) :
          /\ df' = d
          /\ cols' = schema
    /\ pc' = "loaded"
    /\ UNCHANGED <<search_cols, build_status, choices, meta, meta_cols, q,
                   scorer, limit, min_score, search_status, scored,
                   results_df, results_cols, shown_df, shown_cols, text, normed>>

\* the selection, the guard on an empty one, and build_choices(df, search_cols)
Build ==
    /\ pc = "loaded"
    /\ \E sel \in Selections(cols) :
          /\ search_cols' = sel
          /\ IF EmptySelection(sel)
             THEN /\ build_status' = "stopped"
                  /\ pc' = "stopped"
                  /\ UNCHANGED <<choices, meta, meta_cols>>
             ELSE IF KeyErrorIn(cols, sel)
             THEN /\ build_status' = "KeyError"
                  /\ pc' = "failed"
                  /\ UNCHANGED <<choices, meta, meta_cols>>
             ELSE LET b == build_choices(df, cols, sel)
                  IN  /\ build_status' = "ok"
                      /\ pc' = "built"
                      /\ choices' = b.choices
                      /\ meta' = b.meta
                      /\ meta_cols' = b.meta_cols
    /\ UNCHANGED <<df, cols, q, scorer, limit, min_score, search_status,
                   scored, results_df, results_cols, shown_df, shown_cols,
                   text, normed>>

\* the query and the settings, do_search, and the table that is shown
Search ==
    /\ pc = "built"
    /\ \E query \in Queries, table \in [Range(choices) -> ScoreValues],
          lim \in Limits, threshold \in MinScores :
          /\ q' = query
          /\ scorer' = table
          /\ limit' = lim
          /\ min_score' = threshold
          /\ IF Truthy(query)
             THEN LET r == do_search(query, choices, meta, meta_cols, table,
                                     lim, threshold)
                      s == Shown(r.rows, r.cols)
                  IN  /\ search_status' = "returned"
                      /\ scored' = r.scored
                      /\ results_df' = r.rows
                      /\ results_cols' = r.cols
                      /\ shown_df' = IF r.rows # <<>> THEN s.rows ELSE <<>>
                      /\ shown_cols' = IF r.rows # <<>> THEN s.cols ELSE <<>>
             ELSE UNCHANGED <<search_status, scored, results_df, results_cols,
                              shown_df, shown_cols>>
    /\ pc' = "done"
    /\ UNCHANGED <<df, cols, search_cols, build_status, choices, meta,
                   meta_cols, text, normed>>

Next == LoadSheet \/ Build \/ Search

Spec == Init /\ [][Next]_vars

(***************************************************************************)
(* normalize_text on its own                                               *)
(***************************************************************************)
TextChars == {"a", "B", "U+0160", " ", ",", "U+5317"}

TextInputs == {NaN, None} \cup {Str(s) : s \in Strings(TextChars, MaxTextLen)}

InitNorm == pc = "norm_in" /\ Blank /\ text \in TextInputs /\ normed = <<>>

Normalize ==
    /\ pc = "norm_in"
    /\ normed' = normalize_text(text)
    /\ pc' = "norm_out"
    /\ UNCHANGED <<df, cols, search_cols, build_status, choices, meta,
                   meta_cols, q, scorer, limit, min_score, search_status,
                   scored, results_df, results_cols, shown_df, shown_cols, text>>

NextNorm == Normalize

SpecNorm == InitNorm /\ [][NextNorm]_vars

(***************************************************************************)
(* The claims                                                              *)
(***************************************************************************)
Searched == pc = "done" /\ search_status = "returned"

\* minScore in [0,100] and maxResults >= 1
ValidParameters == min_score \in 0..100 /\ limit >= 1

\* the record indices of the rows, in order
Indices(rows) == [k \in 1..Len(rows) |-> rows[k].idx]

\* the scorer's value for record i
ScoreOf(i) == scorer[choices[i]]

\* the entries a threshold keeps
KeptBy(threshold) == {i \in 1..Len(choices) : ScoreOf(i) >= threshold * 10}

\* the full ranking of the kept entries: by score descending, equal scores
\* in record order
Ranking(threshold) ==
    CHOOSE r \in [1..Cardinality(KeptBy(threshold)) -> KeptBy(threshold)] :
        \A a, b \in DOMAIN r :
            a < b => \/ ScoreOf(r[a]) > ScoreOf(r[b])
                     \/ ScoreOf(r[a]) = ScoreOf(r[b]) /\ r[a] < r[b]

TopK(threshold, k) ==
    SubSeq(Ranking(threshold), 1, Min(k, Len(Ranking(threshold))))

RECURSIVE IsSubsequence(_, _)
IsSubsequence(a, b) ==
    IF a = <<>> THEN TRUE
    ELSE IF b = <<>> THEN FALSE
    ELSE IF Head(a) = Head(b) THEN IsSubsequence(Tail(a), Tail(b))
    ELSE IsSubsequence(a, Tail(b))

\* C1: for a non-empty normalized query the record indices do_search returns
\* are the first maxResults entries of the full ranking of the entries with
\* score >= minScore (by score descending, ties in record order)
C1_TopKOfFullRanking ==
    (Searched /\ normalize_text(q) # <<>> /\ ValidParameters)
        => Indices(results_df) = TopK(min_score, limit)

\* C2: when the normalized query is empty the search returns no row and
\* scores no entry, whatever the corpus, scorer, minScore and maxResults
C2_EmptyQueryNoMatches ==
    (pc = "done" /\ normalize_text(q) = <<>>)
        => results_df = <<>> /\ shown_df = <<>> /\ scored = {}

C2_Witness ==
    /\ pc = "done" /\ q = Str(<<",">>) /\ min_score = 0 /\ limit >= 1
    /\ Len(choices) = MaxRecords /\ \A i \in 1..Len(choices) : ScoreOf(i) > 0
    /\ results_df = <<>> /\ scored = {}

\* C3: a search with minScore outside [0,100] or maxResults < 1 fails with
\* InvalidParameter and returns no results
C3_InvalidParameterRejected ==
    (pc = "done" /\ normalize_text(q) # <<>> /\ ~ValidParameters)
        => search_status = "InvalidParameter" /\ results_df = <<>>

\* the ways the script reports an invalid field selection: the caption and
\* st.stop(), or the KeyError of the column lookup
InvalidFieldSelection == {"stopped", "KeyError"}

\* C4: with an empty selection, or one naming a field absent from the
\* columns, the build fails, no corpus is produced and no search follows
C4_InvalidSelectionFails ==
    (build_status # "none"
        /\ (search_cols = <<>> \/ KeyErrorIn(cols, search_cols)))
        => /\ build_status \in InvalidFieldSelection
           /\ choices = <<>> /\ meta = <<>> /\ meta_cols = <<>>
           /\ pc \notin {"built", "done"}

C4_WitnessEmpty ==
    /\ build_status = "stopped" /\ search_cols = <<>> /\ Len(df) = MaxRecords
    /\ choices = <<>>

\* the display string with a missing value contributing the empty string
ExpectedDisplay(record, selection) ==
    LET part(c) == IF record[c] = NaN THEN <<>> ELSE record[c].str
    IN  IF Len(selection) = 1 THEN part(selection[1])
        ELSE Join(<<" ", "|", " ">>,
                  [k \in 1..Len(selection) |-> part(selection[k])])

\* C5: a missing value of a selected field contributes the empty string to
\* the record's display string and search key, for one field and for several
C5_MissingValueIsEmpty ==
    build_status = "ok" =>
        \A i \in 1..Len(df) :
            /\ meta[i]["_display"] = Str(ExpectedDisplay(df[i], search_cols))
            /\ choices[i] =
                 normalize_text(Str(ExpectedDisplay(df[i], search_cols)))

\* C6: normalize_text is idempotent
C6_Idempotent ==
    pc = "norm_out" => normalize_text(Str(normed)) = normed

RankedOrder ==
    Indices(SelectSeq(extract(choices, scorer, limit),
                      LAMBDA r : Keep(r.key.num, min_score)))

\* C8: corpus entry i is derived from record i, and every returned row
\* carries the original fields of its record exactly as loaded, in the
\* ranked order, with no further sorting or filtering
C8_RowsCarryOriginalRecord ==
    /\ build_status = "ok" =>
          /\ Len(choices) = Len(df) /\ Len(meta) = Len(df)
          /\ \A i \in 1..Len(df) :
                choices[i] = normalize_text(meta[i]["_display"])
    /\ (Searched /\ normalize_text(q) # <<>> /\ ValidParameters) =>
          /\ Indices(results_df) = RankedOrder
          /\ \A k \in 1..Len(results_df) : \A c \in Range(cols) :
                /\ c \in DOMAIN results_df[k].vals
                /\ results_df[k].vals[c] = df[results_df[k].idx][c]

\* C9: an output row holds only the score, the display string and original
\* fields of the record; _norm and _display are no field of an output row
C9_NoInternalColumns ==
    pc = "done" =>
        /\ Range(shown_cols) \subseteq {"score", "match"} \cup Range(cols)
        /\ Range(shown_cols) \cap {"_norm", "_display"} = {}
        /\ \A k \in 1..Len(shown_df) :
              DOMAIN shown_df[k].vals = Range(shown_cols)

C9_Witness ==
    /\ pc = "done" /\ Len(shown_df) = 2 /\ "_display" \in Range(results_cols)
    /\ "Name" \in Range(shown_cols) /\ "score" \in Range(shown_cols)

\* C10: in every returned row, score is the integer part of the scorer's
\* value for the record and match is the record's display string, whatever
\* the dataset's columns are named
C10_ScoreAndMatchComputed ==
    (Searched /\ ValidParameters) =>
        \A k \in 1..Len(results_df) :
            LET i == results_df[k].idx
            IN  /\ results_df[k].vals["score"] = Num(IntScore(ScoreOf(i)))
                /\ results_df[k].vals["match"] =
                     Str(DisplayOf(df[i], search_cols))

=============================================================================
